---- MODULE Spec2Model ----
(***************************************************************************)
(* Human-ceiling computation of the ClickMe/CO3D click maps.               *)
(*                                                                         *)
(* Two scripts are modelled as one state machine, selected by `script`:    *)
(*   "ceiling" : src/compute_human_ceiling.py               (__main__+main)*)
(*   "holdout" : src/compute_human_ceiling_hold_one_out.py  (__main__+main)*)
(*                                                                         *)
(* Numbers are exact rationals [nan, n, d]; NaN is a value of its own and  *)
(* follows the IEEE rules numpy follows (every comparison with NaN is      *)
(* false, mean/median of a list holding NaN is NaN, nanmean skips NaN).    *)
(* A finite metric value depends on floating-point pixel data; it is drawn *)
(* from ScoreVals, and only its being NaN or finite is computed.           *)
(***************************************************************************)
EXTENDS Integers, Sequences, FiniteSets, TLC

(***************************************************************************)
(* Bounds of the model.                                                    *)
(***************************************************************************)
\* null_iterations (10 by default in the ceiling script), scaled down
NullIterations == 2
\* finite metric values are 1/10 .. MaxScore/10
MaxScore == 2
\* image_shape = [256, 256], scaled down to ImageSize x ImageSize
ImageSize == 4
\* center_crop = [224, 224], scaled down to CropSize x CropSize
CropSize == 2
\* min_clicks / max_clicks / min_pixels / min_subjects of the hold-one-out script
MinClicks == 1
MaxClicks == 3
MinPixels == 1
MinSubjects == 1

(***************************************************************************)
(* Exact arithmetic with NaN.                                              *)
(***************************************************************************)
NaN == [nan |-> TRUE, n |-> 0, d |-> 1]

Abs(x) == IF x < 0 THEN -x ELSE x

RECURSIVE Gcd(_, _)
Gcd(a, b) == IF b = 0 THEN a ELSE Gcd(b, a % b)

Rat(n, d) ==
    LET g == Gcd(Abs(n), d)
    IN  [nan |-> FALSE, n |-> n \div g, d |-> d \div g]

IsNaN(a) == a.nan

\* a < b as numpy evaluates it: False as soon as either side is NaN
Lt(a, b) == ~a.nan /\ ~b.nan /\ a.n * b.d < b.n * a.d

Le(a, b) == ~a.nan /\ ~b.nan /\ a.n * b.d <= b.n * a.d

Add(a, b) == IF a.nan \/ b.nan THEN NaN ELSE Rat(a.n * b.d + b.n * a.d, a.d * b.d)

RECURSIVE SumSeq(_)
SumSeq(s) == IF s = <<>> THEN Rat(0, 1) ELSE Add(Head(s), SumSeq(Tail(s)))

DivInt(a, k) == IF a.nan \/ k = 0 THEN NaN ELSE Rat(a.n, a.d * k)

\* np.mean: NaN for an empty list and as soon as one entry is NaN
np_mean(s) == DivInt(SumSeq(s), Len(s))

DropNaN(s) == SelectSeq(s, LAMBDA x : ~x.nan)

\* np.nanmean: the mean of the entries that are not NaN; NaN when none is left
np_nanmean(s) == np_mean(DropNaN(s))

\* position of s[i] in the ascending order of s (ties broken by index)
RankIn(s, i) ==
    Cardinality({j \in 1..Len(s) : Lt(s[j], s[i]) \/ (~Lt(s[i], s[j]) /\ j < i)}) + 1

Sorted(s) == [k \in 1..Len(s) |-> s[CHOOSE i \in 1..Len(s) : RankIn(s, i) = k]]

\* np.median: NaN for an empty list or a list holding NaN; else the middle of
\* the sorted values (the mean of the two middle ones for an even length)
np_median(s) ==
    IF s = <<>> \/ \E i \in 1..Len(s) : s[i].nan THEN NaN
    ELSE LET t == Sorted(s)
             h == Len(s) \div 2
         IN  IF Len(s) % 2 = 1 THEN t[h + 1] ELSE DivInt(Add(t[h], t[h + 1]), 2)

ScoreVals == {Rat(v, 10) : v \in 1..MaxScore}

(***************************************************************************)
(* Strings are sequences of one-character strings.                         *)
(***************************************************************************)
Digits == <<"0", "1", "2", "3", "4", "5", "6", "7", "8", "9">>

IsDigit(c) == \E k \in 1..10 : Digits[k] = c

DigitVal(c) == (CHOOSE k \in 1..10 : Digits[k] = c) - 1

IsPrefix(p, s) == Len(p) <= Len(s) /\ SubSeq(s, 1, Len(p)) = p

Drop(s, k) == SubSeq(s, k + 1, Len(s))

\* re.sub(r'[{}"]', '', s)
re_sub(s) == SelectSeq(s, LAMBDA c : c \notin {"{", "}", "\""})

\* s.split(sep), scanning left to right
RECURSIVE SplitFrom(_, _, _)
SplitFrom(s, sep, cur) ==
    IF s = <<>> THEN <<cur>>
    ELSE IF IsPrefix(sep, s) THEN <<cur>> \o SplitFrom(Drop(s, Len(sep)), sep, <<>>)
    ELSE SplitFrom(Tail(s), sep, Append(cur, Head(s)))

split(s, sep) == SplitFrom(s, sep, <<>>)

\* s.strip("()")
RECURSIVE lstrip(_)
lstrip(s) == IF s # <<>> /\ Head(s) \in {"(", ")"} THEN lstrip(Tail(s)) ELSE s

RECURSIVE rstrip(_)
rstrip(s) ==
    IF s # <<>> /\ s[Len(s)] \in {"(", ")"} THEN rstrip(SubSeq(s, 1, Len(s) - 1)) ELSE s

strip(s) == rstrip(lstrip(s))

\* int(tok) accepts a non-empty run of decimal digits (sign and blanks do not
\* occur in the click strings drawn here); anything else is a ValueError
IntOk(tok) == tok # <<>> /\ \A k \in 1..Len(tok) : IsDigit(tok[k])

RECURSIVE IntVal(_)
IntVal(tok) ==
    IF tok = <<>> THEN 0
    ELSE 10 * IntVal(SubSeq(tok, 1, Len(tok) - 1)) + DigitVal(tok[Len(tok)])

\* lines 314-317: the pairs of one click string, each a list of tokens
data_list(clickmap) ==
    LET clean_string == re_sub(clickmap)
        tuple_strings == split(clean_string, <<",", " ">>)
        pairs == split(strip(tuple_strings[1]), <<")", ",", "(">>)
    IN  [k \in 1..Len(pairs) |-> split(pairs[k], <<",">>)]

\* tuple(map(int, ...)) raises ValueError on the first token that is no integer
ParseRaises(clickmap) ==
    LET dl == data_list(clickmap)
    IN  \E k \in 1..Len(dl) : \E t \in 1..Len(dl[k]) : ~IntOk(dl[k][t])

tuples_list(clickmap) ==
    LET dl == data_list(clickmap)
    IN  [k \in 1..Len(dl) |-> [t \in 1..Len(dl[k]) |-> IntVal(dl[k][t])]]

(***************************************************************************)
(* The CSV: rows of (image_path, clicks).                                  *)
(***************************************************************************)
Folder == "CO3D_ClickMe2"

\* click strings as the CSV holds them: {"(x,y)","(x,y)"}
S_EMPTY == <<"{", "}">>
S_ONE   == <<"{", "\"", "(", "1", ",", "1", ")", "\"", "}">>
S_IN    == <<"{", "\"", "(", "1", ",", "1", ")", "\"", ",",
                  "\"", "(", "2", ",", "2", ")", "\"", "}">>
S_IN2   == <<"{", "\"", "(", "1", ",", "2", ")", "\"", ",",
                  "\"", "(", "2", ",", "1", ")", "\"", "}">>
S_OUT   == <<"{", "\"", "(", "0", ",", "0", ")", "\"", ",",
                  "\"", "(", "0", ",", "1", ")", "\"", "}">>
S_BAD   == <<"{", "\"", "(", "a", ",", "1", ")", "\"", ",",
                  "\"", "(", "2", ",", "2", ")", "\"", "}">>

\* image keys: category, then the file name
Keys == << <<"a", "1">>, <<"a", "2">>, <<"b", "1">> >>

NormalTrials == <<S_IN, S_IN2>>

\* what one image's rows may hold
TrialChoices ==
    { NormalTrials,
      <<S_ONE>>,
      <<S_IN, S_IN2, S_OUT>>,
      <<S_OUT, S_OUT>>,
      <<S_IN, S_BAD>>,
      <<S_EMPTY, S_IN, S_IN2>>,
      <<>> }

\* at most MaxFaults images depart from NormalTrials
MaxFaults == 1

RowsOf(key, trials) ==
    [k \in 1..Len(trials) |-> [image_path |-> <<Folder>> \o key, clicks |-> trials[k]]]

RECURSIVE RowsFrom(_, _)
RowsFrom(f, k) ==
    IF k > Len(Keys) THEN <<>> ELSE RowsOf(Keys[k], f[k]) \o RowsFrom(f, k + 1)

Datasets ==
    { RowsFrom(f, 1) : f \in { g \in [1..Len(Keys) -> TrialChoices] :
          Cardinality({k \in 1..Len(Keys) : g[k] # NormalTrials}) <= MaxFaults } }

Scripts == {"ceiling", "holdout"}

Metrics == {"crossentropy", "spearman", "auc", "rsa", "AUC", "bogus"}

(***************************************************************************)
(* Ordered dicts are sequences of [k, v] in insertion order.               *)
(***************************************************************************)
HasKey(dict, k) == \E e \in 1..Len(dict) : dict[e].k = k

IndexOf(dict, k) == CHOOSE e \in 1..Len(dict) : dict[e].k = k

\* dict[k].append(x), creating dict[k] = [x] when k is new
DictAppend(dict, k, x) ==
    IF HasKey(dict, k)
    THEN [dict EXCEPT ![IndexOf(dict, k)].v = Append(@, x)]
    ELSE Append(dict, [k |-> k, v |-> <<x>>])

\* row['image_path'].replace("CO3D_ClickMe2/", "")
image_file_name(path) ==
    SelectSeq(SubSeq(path, 1, Len(path) - 1), LAMBDA seg : seg # Folder)
        \o <<path[Len(path)]>>

\* lines 291-298: group the rows' click strings by image
RECURSIVE GroupRows(_, _)
GroupRows(rs, dict) ==
    IF rs = <<>> THEN dict
    ELSE GroupRows(Tail(rs),
                   DictAppend(dict, image_file_name(Head(rs).image_path), Head(rs).clicks))

(***************************************************************************)
(* Click maps.  A map is kept flattened (row after row) and up to a        *)
(* positive factor: what the scripts test of a map is whether it is NaN,   *)
(* whether its sum is zero and whether its range is zero, and none of      *)
(* these changes under a positive factor.  An array is [nan, px, norm].    *)
(***************************************************************************)
RECURSIVE SumInts(_)
SumInts(s) == IF s = <<>> THEN 0 ELSE Head(s) + SumInts(Tail(s))

MaxOf(s) == CHOOSE m \in {s[k] : k \in 1..Len(s)} : \A k \in 1..Len(s) : s[k] <= m

MinOf(s) == CHOOSE m \in {s[k] : k \in 1..Len(s)} : \A k \in 1..Len(s) : m <= s[k]

\* utils.create_clickmap (not in src/): scatter-accumulate the (x, y) points of
\* the trials into a zero grid of image_shape; points outside the grid are dropped
create_clickmap(point_lists) ==
    [g \in 1..(ImageSize * ImageSize) |->
        LET x == (g - 1) % ImageSize
            y == (g - 1) \div ImageSize
        IN  SumInts([t \in 1..Len(point_lists) |->
                Cardinality({k \in 1..Len(point_lists[t]) :
                    point_lists[t][k] = <<x, y>>})])]

\* gaussian_blur with blur_size = 1: gaussian_kernel(1, sigma) is the single
\* weight 1 after `kernel / kernel.sum()`, and conv2d(padding='same') with it
\* returns the heatmap
gaussian_blur(heatmap) == [g \in 1..Len(heatmap) |-> 1 * heatmap[g]]

\* Python's round(): half to even
RoundHalf(diff) ==
    LET q == diff \div 2
    IN  IF diff % 2 = 0 THEN q ELSE IF q % 2 = 0 THEN q ELSE q + 1

\* tvF.center_crop(clickmaps, center_crop)
center_crop(heatmap) ==
    LET off == RoundHalf(ImageSize - CropSize)
    IN  [c \in 1..(CropSize * CropSize) |->
            LET x == ((c - 1) % CropSize) + off
                y == ((c - 1) \div CropSize) + off
            IN  heatmap[y * ImageSize + x + 1]]

\* lines 133-139 without the squeeze: one smoothed, cropped map per trial
smoothed_maps(image_trials) ==
    [k \in 1..Len(image_trials) |->
        center_crop(gaussian_blur(create_clickmap(<<image_trials[k]>>)))]

ZeroPx == [c \in 1..(CropSize * CropSize) |-> 0]

NaNArray(norm) == [nan |-> TRUE, px |-> ZeroPx, norm |-> norm]

Arr(px) == [nan |-> FALSE, px |-> px, norm |-> "none"]

\* stack[sel].mean(0); the mean of an empty stack is NaN (numpy only warns)
RECURSIVE SumMaps(_)
SumMaps(stack) ==
    IF stack = <<>> THEN ZeroPx
    ELSE LET rest == SumMaps(Tail(stack))
         IN  [c \in 1..(CropSize * CropSize) |-> Head(stack)[c] + rest[c]]

mean0(stack) == IF stack = <<>> THEN NaNArray("none") ELSE Arr(SumMaps(stack))

\* a / a.sum(): 0/0 = NaN everywhere when the sum is zero
sum_normalize(a) ==
    IF a.nan \/ SumInts(a.px) = 0 THEN NaNArray("sum")
    ELSE [nan |-> FALSE, px |-> a.px, norm |-> "sum"]

\* (a - a.min()) / (a.max() - a.min()): 0/0 = NaN everywhere when the range is zero
minmax_normalize(a) ==
    IF a.nan \/ MaxOf(a.px) = MinOf(a.px) THEN NaNArray("minmax")
    ELSE [nan |-> FALSE, px |-> [c \in 1..Len(a.px) |-> a.px[c] - MinOf(a.px)],
          norm |-> "minmax"]

IsConstant(a) == MaxOf(a.px) = MinOf(a.px)

\* compute_spearman_correlation; v is what spearmanr returns when it is defined
compute_spearman_correlation(map1, map2, v) ==
    IF Len(map1.px) > 1 /\ Len(map2.px) > 1
    THEN IF map1.nan \/ map2.nan \/ IsConstant(map1) \/ IsConstant(map2) THEN NaN ELSE v
    ELSE NaN

\* compute_crossentropy; v is what F.cross_entropy returns on finite operands
compute_crossentropy(map1, map2, v) ==
    IF map1.nan \/ map2.nan THEN NaN ELSE v

\* utils.compute_crossentropy / compute_AUC / compute_RSA /
\* compute_spearman_correlation (not in src/): one scalar, NaN on degenerate input
utils_metric(map1, map2, v) ==
    IF map1.nan \/ map2.nan THEN NaN ELSE v

\* the record kept of one metric invocation
Call(site, fn, a, b) ==
    [site |-> site, fn |-> fn, norm1 |-> a.norm, norm2 |-> b.norm]

\* lines 155-158 / 171-174 / 269-272: the metric the ceiling script invokes
ceiling_dispatch(m) == IF m = "crossentropy" THEN "crossentropy" ELSE "spearman"

ceiling_metric(m, map1, map2, v) ==
    IF ceiling_dispatch(m) = "crossentropy"
    THEN compute_crossentropy(map1, map2, v)
    ELSE compute_spearman_correlation(map1, map2, v)

\* clickmaps[~np.in1d(np.arange(len(clickmaps)), i)]
AllBut(stack, i) == [k \in 1..(Len(stack) - 1) |-> IF k < i THEN stack[k] ELSE stack[k + 1]]

\* lines 141-143: zero_maps = clickmaps.sum((1, 2)) == 0; clickmaps[~zero_maps]
remove_zero_maps(stack) == SelectSeq(stack, LAMBDA m : SumInts(m) # 0)

\* line 138: squeeze() drops every axis of length 1, so the stack of a single
\* trial loses its subject axis and sum((1, 2)) has no axis 2 (H, W > 1)
SqueezedNdim(image_trials) == IF Len(image_trials) = 1 THEN 2 ELSE 3

\* split_half_correlation, version "single_subject"; vals[i] is the value the
\* metric returns for subject i when it is finite
split_half_correlation(image_trials, m, vals) ==
    LET clickmaps == remove_zero_maps(smoothed_maps(image_trials))
        test_map(i) == sum_normalize(Arr(clickmaps[i]))
        remaining_maps(i) == sum_normalize(mean0(AllBut(clickmaps, i)))
        correlations ==
            [i \in 1..Len(clickmaps) |->
                ceiling_metric(m, test_map(i), remaining_maps(i), vals[i])]
    IN  [mean |-> np_nanmean(correlations),
         clickmaps |-> clickmaps,
         correlations |-> correlations,
         calls |-> [i \in 1..Len(clickmaps) |->
                      Call("loo", ceiling_dispatch(m), test_map(i), remaining_maps(i))]]

\* category = image_key.split("/")[0]
category_of(image_key) == image_key[1]

\* the sorted order of the category names np.unique returns
CategoryOrder == <<"a", "b">>

CatRank(c) == CHOOSE k \in 1..Len(CategoryOrder) : CategoryOrder[k] = c

\* _, category_indices = np.unique(categories, return_inverse=True)
unique_inverse(cats) ==
    [i \in 1..Len(cats) |->
        Cardinality({CatRank(cats[j]) : j \in 1..Len(cats)} \cap 1..(CatRank(cats[i]) - 1))]

\* an off-by-one loop bound: the loop stops before its last element
LoopDoneEarly(i, n) == i >= n

\* the loop over the images has run out
LoopDone(i, n) == i > n

\* the variant of lines 260-261: every image but i, whatever its category
sub_vec_other_images(cat_indices, i) ==
    {j \in 1..Len(cat_indices) : j # i}

\* np.where(category_indices != category_index)[0]
sub_vec(cat_indices, i) ==
    {j \in 1..Len(cat_indices) : cat_indices[j] # cat_indices[i]}

\* the comparison with <= in place of <
below_or_at_cutoff(inst, median_cutoff) == Le(inst, median_cutoff)

\* line 333: inst < median_cutoff
below_cutoff(inst, median_cutoff) == Lt(inst, median_cutoff)

Min2(a, b) == IF a < b THEN a ELSE b

RECURSIVE Flatten(_)
Flatten(ss) == IF ss = <<>> THEN <<>> ELSE Head(ss) \o Flatten(Tail(ss))

\* the values handed out one position late
ValuesShifted(dict) == [e \in 1..Len(dict) |-> dict[(e % Len(dict)) + 1].v]

\* dict.values(): the values in insertion order
Values(dict) == [e \in 1..Len(dict) |-> dict[e].v]

\* lines 327-336: the zip stops at its shortest argument
threshold(final, instance, correlations) ==
    LET means == [e \in 1..Len(instance) |-> np_mean(instance[e].v)]
        cutoff == np_median(means)
        n == Min2(Min2(Len(final), Len(means)), Len(correlations))
        keep == {j \in 1..n : below_cutoff(means[j], cutoff)}
        Pick(seq) == SelectSeq([j \in 1..n |-> [j |-> j, x |-> seq[j]]],
                               LAMBDA e : e.j \in keep)
    IN  [done |-> TRUE,
         mean_null_instance_correlations |-> means,
         median_cutoff |-> cutoff,
         final_clickmaps_thresholded |->
             [e \in 1..Cardinality(keep) |-> Pick(final)[e].x],
         all_correlations_thresholded |->
             [e \in 1..Cardinality(keep) |-> Pick(correlations)[e].x],
         null_instance_correlations_thresholded |->
             [e \in 1..Cardinality(keep) |-> Pick(Values(instance))[e].x]]

\* metric.lower()
lower(m) == IF m = "AUC" THEN "auc" ELSE m

\* hold-one-out lines 124-131: the metric of the leave-one-out loop
holdout_dispatch_loo(m) ==
    IF lower(m) = "crossentropy" THEN "crossentropy"
    ELSE IF lower(m) = "auc" THEN "auc"
    ELSE IF lower(m) = "spearman" THEN "spearman"
    ELSE "ValueError"

\* hold-one-out lines 34-43: the metric of compute_inner_correlations
holdout_dispatch_null(m) ==
    IF lower(m) = "crossentropy" THEN "crossentropy"
    ELSE IF lower(m) = "auc" THEN "auc"
    ELSE IF lower(m) = "rsa" THEN "rsa"
    ELSE IF lower(m) = "spearman" THEN "spearman"
    ELSE "ValueError"

\* ClickParser as the specification states it (utils.process_clickmap_files is
\* not in src/): a trial with a non-numeric token or fewer than 2 points is
\* skipped, and so is one whose click count is outside [min_clicks, max_clicks]
trial_dropped(clickmap) ==
    \/ Len(clickmap) = 2
    \/ ParseRaises(clickmap)
    \/ Len(tuples_list(clickmap)) < 2
    \/ Len(tuples_list(clickmap)) < MinClicks
    \/ Len(tuples_list(clickmap)) > MaxClicks

RECURSIVE process_rows(_, _)
process_rows(rs, dict) ==
    IF rs = <<>> THEN dict
    ELSE process_rows(Tail(rs),
            IF trial_dropped(Head(rs).clicks) THEN dict
            ELSE DictAppend(dict, image_file_name(Head(rs).image_path),
                            tuples_list(Head(rs).clicks)))

process_clickmap_files(rs) ==
    [clickmaps |-> process_rows(rs, <<>>),
     dropped |-> Cardinality({k \in 1..Len(rs) : trial_dropped(rs[k].clicks)})]

\* MapFilter as the specification states it (utils.prepare_maps is not in src/):
\* a trial survives when its smoothed map has at least min_pixels non-zero
\* pixels, an image when at least min_subjects of its trials survive
NonZeroPixels(m) == Cardinality({c \in 1..Len(m) : m[c] # 0})

surviving(trials) ==
    SelectSeq(trials, LAMBDA t :
        NonZeroPixels(center_crop(gaussian_blur(create_clickmap(<<t>>)))) >= MinPixels)

prepare_maps(dict) ==
    LET kept == SelectSeq(dict, LAMBDA e : Len(surviving(e.v)) >= MinSubjects)
    IN  [final_clickmaps |-> [e \in 1..Len(kept) |-> [k |-> kept[e].k, v |-> surviving(kept[e].v)]],
         all_clickmaps |-> [e \in 1..Len(kept) |-> smoothed_maps(surviving(kept[e].v))],
         categories |-> [e \in 1..Len(kept) |-> category_of(kept[e].k)]]

\* hold-one-out lines 118-132 for one image
holdout_loo(stack, m, vals) ==
    LET test_map(i) == minmax_normalize(Arr(stack[i]))
        remaining_maps(i) == minmax_normalize(mean0(AllBut(stack, i)))
    IN  [correlations |->
             [i \in 1..Len(stack) |-> utils_metric(test_map(i), remaining_maps(i), vals[i])],
         calls |->
             [i \in 1..Len(stack) |->
                 Call("loo", holdout_dispatch_loo(m), test_map(i), remaining_maps(i))]]

Pending == [state |-> "pending", i |-> 0, correlation |-> NaN, error |-> ""]

VARIABLES
    script,              \* which script runs
    metric,              \* the metric name passed to main
    rows,                \* the CSV rows
    pc,                  \* the stage the run is in, "DONE" or "RAISED"
    error,               \* the uncaught exception, "" when none
    stages,              \* history: the stages entered, in order
    clickmaps,           \* image -> click strings (ceiling) / parsed trials (holdout)
    final_clickmaps,     \* image -> parsed trials
    n_empty_clickmap,    \* counter of skipped empty trials
    number_of_maps,      \* per image, the trials kept
    n_clickmaps,         \* the parse loop's counter for the current image
    idx,                 \* loop index over images
    sub,                 \* loop index over an image's trials
    all_clickmaps,       \* per image, the stack of its subject maps
    categories,          \* per image, its category
    category_indices,    \* per image, the index of its category
    all_correlations,    \* the agreement scores
    it,                  \* the null iteration, from 1
    inner_correlations,  \* the null scores of the running iteration
    instance_correlations, \* image index -> its null scores
    null_correlations,   \* per finished iteration, the dataset null mean
    results,             \* hold-one-out: what each worker of the iteration returned
    thresholded,         \* what THRESHOLD computes
    archive,             \* what EXPORT writes
    loo,                 \* history: the last image scored leave-one-out
    calls,               \* history: the metric invocations of the last step
    draw,                \* history: the last null draw
    split_half           \* a direct call of split_half_correlation: arguments and locals

ldvars == <<clickmaps, final_clickmaps, n_empty_clickmap, number_of_maps, n_clickmaps>>

scvars == <<all_clickmaps, categories, category_indices, all_correlations>>

nuvars == <<it, inner_correlations, instance_correlations, null_correlations, results>>

outvars == <<thresholded, archive>>

\* what no step of the two scripts changes: their configuration, and the
\* state of a direct split_half_correlation call
cfgvars == <<script, metric, rows, split_half>>

vars == <<cfgvars, pc, error, stages, ldvars, idx, sub, scvars, nuvars, outvars,
          loo, calls, draw>>

NoLoo == [n_trials |-> 0, correlations |-> <<>>, zero |-> <<>>, done |-> FALSE]

NoDraw == [i |-> 0, rand_map |-> 0]

NoSplit ==
    [version |-> "single_subject", bootstrap |-> FALSE, image_trials |-> <<>>,
     clickmaps |-> <<>>, num_trials |-> 0, half |-> 0, n |-> 0, indices |-> <<>>,
     first_half_indices |-> <<>>, second_half_indices |-> <<>>,
     correlations |-> <<>>, result |-> NaN]

NoThreshold ==
    [done |-> FALSE, mean_null_instance_correlations |-> <<>>, median_cutoff |-> NaN,
     final_clickmaps_thresholded |-> <<>>, all_correlations_thresholded |-> <<>>,
     null_instance_correlations_thresholded |-> <<>>]

Init ==
    /\ script \in Scripts
    /\ metric \in Metrics
    /\ rows \in Datasets
    /\ pc = "LOAD"
    /\ error = ""
    /\ stages = <<"LOAD">>
    /\ clickmaps = <<>>
    /\ final_clickmaps = <<>>
    /\ n_empty_clickmap = 0
    /\ number_of_maps = <<>>
    /\ n_clickmaps = 0
    /\ idx = 1
    /\ sub = 1
    /\ all_clickmaps = <<>>
    /\ categories = <<>>
    /\ category_indices = <<>>
    /\ all_correlations = <<>>
    /\ it = 1
    /\ inner_correlations = <<>>
    /\ instance_correlations = <<>>
    /\ null_correlations = <<>>
    /\ results = <<>>
    /\ thresholded = NoThreshold
    /\ archive = <<>>
    /\ loo = NoLoo
    /\ calls = <<>>
    /\ draw = NoDraw
    /\ split_half = NoSplit

Enter(stage) == pc' = stage /\ stages' = Append(stages, stage) /\ error' = error

Raise(exc) == pc' = "RAISED" /\ error' = exc /\ stages' = stages

\* compute_human_ceiling.py lines 288-298
Load ==
    /\ script = "ceiling" /\ pc = "LOAD"
    /\ clickmaps' = GroupRows(rows, <<>>)
    /\ Enter("PARSE")
    /\ idx' = 1 /\ sub' = 1
    /\ UNCHANGED <<cfgvars, final_clickmaps, n_empty_clickmap, number_of_maps, n_clickmaps,
                   scvars, nuvars, outvars, loo, calls, draw>>

\* compute_human_ceiling.py lines 305-323, one trial of the inner loop
ParseTrial ==
    /\ script = "ceiling" /\ pc = "PARSE" /\ ~LoopDone(idx, Len(clickmaps))
    /\ LET image == clickmaps[idx].k
           clickmap == clickmaps[idx].v[sub]
           last == sub = Len(clickmaps[idx].v)
           skip == Len(clickmap) = 2
           kept == IF skip THEN n_clickmaps ELSE n_clickmaps + 1
       IN  IF ~skip /\ ParseRaises(clickmap)
           THEN /\ Raise("ValueError: invalid literal for int()")
                /\ n_clickmaps' = kept
                /\ UNCHANGED <<final_clickmaps, n_empty_clickmap, number_of_maps, idx, sub>>
           ELSE /\ n_empty_clickmap' = IF skip THEN n_empty_clickmap + 1 ELSE n_empty_clickmap
                /\ final_clickmaps' = IF skip THEN final_clickmaps
                                      ELSE DictAppend(final_clickmaps, image, tuples_list(clickmap))
                /\ number_of_maps' = IF last THEN Append(number_of_maps, kept) ELSE number_of_maps
                /\ n_clickmaps' = IF last THEN 0 ELSE kept
                /\ idx' = IF last THEN idx + 1 ELSE idx
                /\ sub' = IF last THEN 1 ELSE sub + 1
                /\ UNCHANGED <<pc, error, stages>>
    /\ UNCHANGED <<cfgvars, clickmaps, scvars, nuvars, outvars, loo, calls, draw>>

\* line 325: the parse loop is over and main() is called
CallMain ==
    /\ script = "ceiling" /\ pc = "PARSE" /\ LoopDone(idx, Len(clickmaps))
    /\ Enter("SCORE")
    /\ idx' = 1
    /\ UNCHANGED <<cfgvars, ldvars, sub, scvars, nuvars, outvars, loo, calls, draw>>

\* main lines 215-237, one image
ScoreImage ==
    /\ script = "ceiling" /\ pc = "SCORE" /\ ~LoopDone(idx, Len(final_clickmaps))
    /\ LET image_key == final_clickmaps[idx].k
           image_trials == final_clickmaps[idx].v
           stack == smoothed_maps(image_trials)
       IN  IF SqueezedNdim(image_trials) < 3
           THEN /\ Raise("AxisError: axis 2 is out of bounds for array of dimension 2")
                /\ loo' = [n_trials |-> Len(image_trials), correlations |-> <<>>,
                           zero |-> <<>>, done |-> FALSE]
                /\ UNCHANGED <<scvars, idx, calls>>
           ELSE \E vals \in [1..Len(remove_zero_maps(stack)) -> ScoreVals] :
                LET out == split_half_correlation(image_trials, metric, vals)
                IN  /\ all_correlations' = Append(all_correlations, out.mean)
                    /\ all_clickmaps' = Append(all_clickmaps, out.clickmaps)
                    /\ categories' = Append(categories, category_of(image_key))
                    /\ idx' = idx + 1
                    /\ loo' = [n_trials |-> Len(image_trials),
                               correlations |-> out.correlations,
                               zero |-> [k \in 1..Len(stack) |-> SumInts(stack[k]) = 0],
                               done |-> TRUE]
                    /\ calls' = out.calls
                    /\ UNCHANGED <<pc, error, stages, category_indices>>
    /\ UNCHANGED <<cfgvars, ldvars, sub, nuvars, outvars, draw>>

\* main lines 238-242: the scoring loop is over
StartNull ==
    /\ script = "ceiling" /\ pc = "SCORE" /\ LoopDone(idx, Len(final_clickmaps))
    /\ category_indices' = unique_inverse(categories)
    /\ Enter("NULL_SCORE")
    /\ it' = 1 /\ idx' = 1
    /\ inner_correlations' = <<>> /\ instance_correlations' = <<>> /\ null_correlations' = <<>>
    /\ results' = results
    /\ loo' = NoLoo /\ calls' = <<>>
    /\ UNCHANGED <<cfgvars, ldvars, sub, all_clickmaps, categories, all_correlations,
                   outvars, draw>>

\* main lines 247-275, one image of one null iteration
NullStep ==
    /\ script = "ceiling" /\ pc = "NULL_SCORE" /\ ~LoopDone(idx, Len(all_clickmaps))
    /\ LET reference_map == sum_normalize(mean0(all_clickmaps[idx]))
           candidates == sub_vec(category_indices, idx)
       IN  \/ /\ candidates = {}
              /\ Raise("ValueError: 'a' cannot be empty")
              /\ UNCHANGED <<idx, nuvars, calls, draw>>
           \/ \E rand_map \in candidates :
                /\ Len(all_clickmaps[rand_map]) = 0
                /\ Raise("ValueError: a must be greater than 0")
                /\ draw' = [i |-> idx, rand_map |-> rand_map]
                /\ UNCHANGED <<idx, nuvars, calls>>
           \/ \E rand_map \in candidates :
              \E rand_sub \in 1..Len(all_clickmaps[rand_map]) :
              \E v \in ScoreVals :
                LET test_map == sum_normalize(Arr(all_clickmaps[rand_map][rand_sub]))
                    correlation == ceiling_metric(metric, test_map, reference_map, v)
                IN  /\ inner_correlations' = Append(inner_correlations, correlation)
                    /\ instance_correlations' =
                           DictAppend(instance_correlations, idx, correlation)
                    /\ calls' = <<Call("null", ceiling_dispatch(metric), test_map, reference_map)>>
                    /\ draw' = [i |-> idx, rand_map |-> rand_map]
                    /\ idx' = idx + 1
                    /\ UNCHANGED <<pc, error, stages, it, null_correlations, results>>
    /\ UNCHANGED <<cfgvars, ldvars, sub, scvars, outvars, loo>>

\* main lines 276-278: the end of one null iteration; main returns after the last
NullIterationEnd ==
    /\ script = "ceiling" /\ pc = "NULL_SCORE" /\ LoopDone(idx, Len(all_clickmaps))
    /\ null_correlations' = Append(null_correlations, np_nanmean(inner_correlations))
    /\ inner_correlations' = <<>>
    /\ idx' = 1
    /\ it' = it + 1
    /\ IF it = NullIterations THEN Enter("THRESHOLD") ELSE UNCHANGED <<pc, error, stages>>
    /\ calls' = <<>> /\ draw' = NoDraw
    /\ UNCHANGED <<cfgvars, ldvars, sub, scvars, instance_correlations, results, outvars, loo>>

\* __main__ lines 327-336
Threshold ==
    /\ script = "ceiling" /\ pc = "THRESHOLD"
    /\ thresholded' = threshold(final_clickmaps, instance_correlations, all_correlations)
    /\ Enter("EXPORT")
    /\ UNCHANGED <<cfgvars, ldvars, idx, sub, scvars, nuvars, archive, loo, calls, draw>>

\* __main__ lines 337-352: the four printed means and the saved archive
Export ==
    /\ script = "ceiling" /\ pc = "EXPORT"
    /\ archive' =
         [printed |-> <<np_nanmean(all_correlations),
                        np_nanmean(null_correlations),
                        np_nanmean(thresholded.all_correlations_thresholded),
                        np_nanmean(Flatten(thresholded.null_instance_correlations_thresholded))>>,
          null_instance_correlations |-> instance_correlations,
          median_cutoff |-> thresholded.median_cutoff,
          final_clickmaps |-> final_clickmaps,
          final_clickmaps_thresholded |-> thresholded.final_clickmaps_thresholded,
          ceiling_correlations |-> all_correlations,
          null_correlations |-> null_correlations,
          thresholded_all_correlations |-> thresholded.all_correlations_thresholded,
          thresholded_null_correlations |-> thresholded.null_instance_correlations_thresholded]
    /\ pc' = "DONE"
    /\ UNCHANGED <<cfgvars, error, stages, ldvars, idx, sub, scvars, nuvars, thresholded,
                   loo, calls, draw>>

(***************************************************************************)
(* compute_human_ceiling_hold_one_out.py                                   *)
(***************************************************************************)
\* __main__ line 149: pd.read_csv, then main() is called
HLoad ==
    /\ script = "holdout" /\ pc = "LOAD"
    /\ Enter("PARSE")
    /\ UNCHANGED <<cfgvars, ldvars, idx, sub, scvars, nuvars, outvars, loo, calls, draw>>

\* main lines 86-89
HParse ==
    /\ script = "holdout" /\ pc = "PARSE"
    /\ clickmaps' = process_clickmap_files(rows).clickmaps
    /\ n_empty_clickmap' = process_clickmap_files(rows).dropped
    /\ Enter("FILTER")
    /\ UNCHANGED <<cfgvars, final_clickmaps, number_of_maps, n_clickmaps, idx, sub, scvars,
                   nuvars, outvars, loo, calls, draw>>

\* main lines 92-99
HFilter ==
    /\ script = "holdout" /\ pc = "FILTER"
    /\ final_clickmaps' = prepare_maps(clickmaps).final_clickmaps
    /\ all_clickmaps' = prepare_maps(clickmaps).all_clickmaps
    /\ categories' = prepare_maps(clickmaps).categories
    /\ Enter("SCORE")
    /\ idx' = 1
    /\ UNCHANGED <<cfgvars, clickmaps, n_empty_clickmap, number_of_maps, n_clickmaps, sub,
                   category_indices, all_correlations, nuvars, outvars, loo, calls, draw>>

\* main lines 118-132, one image of the outer loop
HScoreImage ==
    /\ script = "holdout" /\ pc = "SCORE" /\ ~LoopDone(idx, Len(all_clickmaps))
    /\ LET stack == all_clickmaps[idx]
       IN  IF Len(stack) > 0 /\ holdout_dispatch_loo(metric) = "ValueError"
           THEN /\ Raise("ValueError: Invalid metric")
                /\ UNCHANGED <<all_correlations, idx, loo, calls>>
           ELSE \E vals \in [1..Len(stack) -> ScoreVals] :
                LET out == holdout_loo(stack, metric, vals)
                IN  /\ all_correlations' = all_correlations \o out.correlations
                    /\ idx' = idx + 1
                    /\ loo' = [n_trials |-> Len(stack),
                               correlations |-> out.correlations,
                               zero |-> [k \in 1..Len(stack) |-> SumInts(stack[k]) = 0],
                               done |-> TRUE]
                    /\ calls' = out.calls
                    /\ UNCHANGED <<pc, error, stages>>
    /\ UNCHANGED <<cfgvars, ldvars, sub, all_clickmaps, categories, category_indices,
                   nuvars, outvars, draw>>

\* main lines 133-138, and the fan-out of the first iteration (line 140)
HStartNull ==
    /\ script = "holdout" /\ pc = "SCORE" /\ LoopDone(idx, Len(all_clickmaps))
    /\ category_indices' = unique_inverse(categories)
    /\ Enter("NULL_SCORE")
    /\ it' = 1 /\ idx' = 1
    /\ inner_correlations' = <<>> /\ instance_correlations' = <<>> /\ null_correlations' = <<>>
    /\ results' = [i \in 1..Len(all_clickmaps) |-> Pending]
    /\ loo' = NoLoo /\ calls' = <<>>
    /\ UNCHANGED <<cfgvars, ldvars, sub, all_clickmaps, categories, all_correlations,
                   outvars, draw>>

\* compute_inner_correlations(i, ...) in one worker, lines 13-48
HWorker ==
    /\ script = "holdout" /\ pc = "NULL_SCORE"
    /\ \E i \in 1..Len(results) :
        /\ results[i].state = "pending"
        /\ LET reference_map == minmax_normalize(mean0(all_clickmaps[i]))
               candidates == sub_vec(category_indices, i)
               Failed(exc) == [state |-> "raised", i |-> i, correlation |-> NaN, error |-> exc]
           IN  \/ /\ candidates = {}
                  /\ results' = [results EXCEPT ![i] = Failed("ValueError: 'a' cannot be empty")]
                  /\ UNCHANGED <<calls, draw>>
               \/ \E rand_map \in candidates :
                    /\ Len(all_clickmaps[rand_map]) = 0
                    /\ results' = [results EXCEPT
                                     ![i] = Failed("ValueError: a must be greater than 0")]
                    /\ draw' = [i |-> i, rand_map |-> rand_map]
                    /\ UNCHANGED calls
               \/ \E rand_map \in candidates :
                  \E rand_sub \in 1..Len(all_clickmaps[rand_map]) :
                  \E v \in ScoreVals :
                    LET test_map == minmax_normalize(Arr(all_clickmaps[rand_map][rand_sub]))
                        fn == holdout_dispatch_null(metric)
                    IN  /\ results' = [results EXCEPT ![i] =
                               IF fn = "ValueError"
                               THEN Failed("ValueError: Invalid metric")
                               ELSE [state |-> "done", i |-> i,
                                     correlation |-> utils_metric(test_map, reference_map, v),
                                     error |-> ""]]
                        /\ calls' = <<Call("null", fn, test_map, reference_map)>>
                        /\ draw' = [i |-> i, rand_map |-> rand_map]
    /\ UNCHANGED <<cfgvars, pc, error, stages, ldvars, idx, sub, scvars, it,
                   inner_correlations, instance_correlations, null_correlations, outvars, loo>>

\* a join that does not wait for every worker
AnyReturned(res) == \E i \in 1..Len(res) : res[i].state # "pending"

\* line 140: Parallel(...)(...) returns the list of results when every task has returned
AllReturned(res) == \A i \in 1..Len(res) : res[i].state # "pending"

\* main lines 140-145: Parallel(...) returns when every worker has, and raises
\* what a worker raised; else the results are aggregated in index order
HJoin ==
    /\ script = "holdout" /\ pc = "NULL_SCORE"
    /\ AllReturned(results)
    /\ IF \E i \in 1..Len(results) : results[i].state = "raised"
       THEN /\ Raise(results[CHOOSE i \in 1..Len(results) :
                        /\ results[i].state = "raised"
                        /\ \A j \in 1..(i - 1) : results[j].state # "raised"].error)
            /\ UNCHANGED <<nuvars, calls, draw>>
       ELSE /\ inner_correlations' = [i \in 1..Len(results) |-> <<results[i].correlation>>]
            /\ instance_correlations' =
                   [i \in 1..Len(results) |-> [k |-> i, v |-> <<results[i].correlation>>]]
            /\ null_correlations' =
                   Append(null_correlations,
                          np_nanmean([i \in 1..Len(results) |-> results[i].correlation]))
            /\ it' = it + 1
            /\ results' = [i \in 1..Len(results) |-> Pending]
            /\ IF it = NullIterations THEN Enter("EXPORT") ELSE UNCHANGED <<pc, error, stages>>
            /\ calls' = <<>> /\ draw' = NoDraw
    /\ UNCHANGED <<cfgvars, ldvars, idx, sub, scvars, outvars, loo>>

\* __main__ lines 174-183
HExport ==
    /\ script = "holdout" /\ pc = "EXPORT"
    /\ archive' =
         [printed |-> <<np_nanmean(all_correlations), np_nanmean(null_correlations)>>,
          mean_null_instance_correlations |->
              [e \in 1..Len(instance_correlations) |-> np_mean(instance_correlations[e].v)],
          null_instance_correlations |-> instance_correlations,
          final_clickmaps |-> final_clickmaps,
          ceiling_correlations |-> all_correlations,
          null_correlations |-> null_correlations]
    /\ pc' = "DONE"
    /\ UNCHANGED <<cfgvars, error, stages, ldvars, idx, sub, scvars, nuvars, thresholded,
                   loo, calls, draw>>

Next ==
    \/ Load \/ ParseTrial \/ CallMain \/ ScoreImage \/ StartNull \/ NullStep
    \/ NullIterationEnd \/ Threshold \/ Export
    \/ HLoad \/ HParse \/ HFilter \/ HScoreImage \/ HStartNull \/ HWorker \/ HJoin \/ HExport

Spec == Init /\ [][Next]_vars

(***************************************************************************)
(* The THRESHOLD step on drawn inputs: the ceiling script as main() has    *)
(* returned for ThrImages images, with the null scores drawn.              *)
(***************************************************************************)
ThrImages == 4

ThrKeys == [e \in 1..ThrImages |-> <<"a", e>>]

ThrSingles == {<<x>> : x \in {Rat(1, 10), Rat(3, 10), Rat(5, 10), Rat(9, 10), NaN}}

ThrPairs == {<<x, y>> : x, y \in {Rat(1, 10), Rat(5, 10), NaN}}

InitThreshold ==
    /\ script = "ceiling"
    /\ metric = "spearman"
    /\ rows = <<>>
    /\ pc = "THRESHOLD"
    /\ error = ""
    /\ stages = <<"LOAD", "PARSE", "SCORE", "NULL_SCORE", "THRESHOLD">>
    /\ clickmaps = <<>>
    /\ final_clickmaps = [e \in 1..ThrImages |-> [k |-> ThrKeys[e], v |-> <<tuples_list(S_IN)>>]]
    /\ n_empty_clickmap = 0
    /\ number_of_maps = [e \in 1..ThrImages |-> 1]
    /\ n_clickmaps = 0
    /\ idx = 1
    /\ sub = 1
    /\ all_clickmaps = [e \in 1..ThrImages |-> smoothed_maps(<<tuples_list(S_IN)>>)]
    /\ categories = [e \in 1..ThrImages |-> "a"]
    /\ category_indices = [e \in 1..ThrImages |-> 0]
    /\ all_correlations = [e \in 1..ThrImages |-> Rat(e, 10)]
    /\ \E lists \in {ThrSingles, ThrPairs} :
         /\ instance_correlations \in
              {[e \in 1..ThrImages |-> [k |-> e, v |-> f[e]]] : f \in [1..ThrImages -> lists]}
         /\ it = (IF lists = ThrSingles THEN 1 ELSE 2) + 1
    /\ inner_correlations = <<>>
    /\ null_correlations = <<>>
    /\ results = <<>>
    /\ thresholded = NoThreshold
    /\ archive = <<>>
    /\ loo = NoLoo
    /\ calls = <<>>
    /\ draw = NoDraw
    /\ split_half = NoSplit

NextThreshold == Threshold \/ Export

SpecThreshold == InitThreshold /\ [][NextThreshold]_vars

(***************************************************************************)
(* split_half_correlation called on its own, with every version: main      *)
(* leaves version at "single_subject", so the "multiple_subjects" branch   *)
(* is reached only by a direct call.                                       *)
(***************************************************************************)
\* n_splits
NSplits == 2
\* the most trials an image has in a direct call
MaxSplitTrials == 3

\* the two versions of line 147 and line 160, and a name that is neither
Versions == {"single_subject", "multiple_subjects", "split_half"}

SplitTrials == {tuples_list(S_IN), tuples_list(S_IN2), tuples_list(S_OUT)}

SplitInputs == UNION {[1..n -> SplitTrials] : n \in 1..MaxSplitTrials}

\* np.random.choice(np.arange(n), size=n, replace=replace): with replacement
\* any n indices, without replacement a permutation; the indices count from 0
choice(n, replace) ==
    IF replace THEN [1..n -> 0..(n - 1)]
    ELSE {f \in [1..n -> 0..(n - 1)] : \A a, b \in 1..n : a # b => f[a] # f[b]}

\* a first half that takes one index too many
first_half_long(indices, half) == SubSeq(indices, 1, Min2(half + 1, Len(indices)))

\* indices[:half]
first_half(indices, half) == SubSeq(indices, 1, half)

\* indices[half:]
second_half(indices, half) == SubSeq(indices, half + 1, Len(indices))

\* clickmaps[indices]
Take(stack, indices) == [k \in 1..Len(indices) |-> stack[indices[k] + 1]]

InitSplit ==
    /\ script = "ceiling"
    /\ metric \in {"crossentropy", "spearman"}
    /\ rows = <<>>
    /\ pc = "MAPS"
    /\ error = ""
    /\ stages = <<"SCORE">>
    /\ clickmaps = <<>>
    /\ final_clickmaps = <<>>
    /\ n_empty_clickmap = 0
    /\ number_of_maps = <<>>
    /\ n_clickmaps = 0
    /\ idx = 1
    /\ sub = 1
    /\ all_clickmaps = <<>>
    /\ categories = <<>>
    /\ category_indices = <<>>
    /\ all_correlations = <<>>
    /\ it = 1
    /\ inner_correlations = <<>>
    /\ instance_correlations = <<>>
    /\ null_correlations = <<>>
    /\ results = <<>>
    /\ thresholded = NoThreshold
    /\ archive = <<>>
    /\ loo = NoLoo
    /\ calls = <<>>
    /\ draw = NoDraw
    /\ \E v \in Versions, b \in BOOLEAN, t \in SplitInputs :
         split_half = [NoSplit EXCEPT !.version = v, !.bootstrap = b, !.image_trials = t]

splitfixed == <<script, metric, rows, ldvars, idx, sub, scvars, nuvars, outvars, loo, draw>>

\* lines 130-145: the maps, the removal of the all-zero ones, num_trials, half
SplitMaps ==
    /\ pc = "MAPS"
    /\ IF SqueezedNdim(split_half.image_trials) < 3
       THEN /\ Raise("AxisError: axis 2 is out of bounds for array of dimension 2")
            /\ UNCHANGED split_half
       ELSE LET maps == remove_zero_maps(smoothed_maps(split_half.image_trials))
            IN  /\ split_half' = [split_half EXCEPT !.clickmaps = maps,
                                                    !.num_trials = Len(maps),
                                                    !.half = Len(maps) \div 2]
                /\ pc' = "VERSION"
                /\ UNCHANGED <<error, stages>>
    /\ UNCHANGED <<splitfixed, calls>>

\* lines 147-159 and 178: version "single_subject"
SplitSingleSubject ==
    /\ pc = "VERSION" /\ split_half.version = "single_subject"
    /\ \E vals \in [1..split_half.num_trials -> ScoreVals] :
         LET out == split_half_correlation(split_half.image_trials, metric, vals)
         IN  /\ split_half' = [split_half EXCEPT !.correlations = out.correlations,
                                                 !.result = out.mean]
             /\ calls' = out.calls
    /\ pc' = "DONE"
    /\ UNCHANGED <<splitfixed, error, stages>>

\* lines 161-175: one iteration of version "multiple_subjects"
SplitIteration ==
    /\ pc = "VERSION" /\ split_half.version = "multiple_subjects"
    /\ split_half.n < NSplits
    /\ \E indices \in choice(split_half.num_trials, split_half.bootstrap), v \in ScoreVals :
         LET first_half_indices == first_half(indices, split_half.half)
             second_half_indices == second_half(indices, split_half.half)
             avg_map1 == minmax_normalize(mean0(Take(split_half.clickmaps, first_half_indices)))
             avg_map2 == minmax_normalize(mean0(Take(split_half.clickmaps, second_half_indices)))
             correlation == ceiling_metric(metric, avg_map1, avg_map2, v)
         IN  /\ split_half' =
                   [split_half EXCEPT !.indices = indices,
                                      !.first_half_indices = first_half_indices,
                                      !.second_half_indices = second_half_indices,
                                      !.correlations = Append(@, correlation),
                                      !.n = @ + 1]
             /\ calls' = <<Call("split", ceiling_dispatch(metric), avg_map1, avg_map2)>>
    /\ UNCHANGED <<splitfixed, pc, error, stages>>

\* line 178 after the n_splits iterations
SplitReturn ==
    /\ pc = "VERSION" /\ split_half.version = "multiple_subjects"
    /\ split_half.n = NSplits
    /\ split_half' = [split_half EXCEPT !.result = np_nanmean(split_half.correlations)]
    /\ pc' = "DONE"
    /\ UNCHANGED <<splitfixed, error, stages, calls>>

\* lines 176-177: any other version
SplitInvalidVersion ==
    /\ pc = "VERSION" /\ split_half.version \notin {"single_subject", "multiple_subjects"}
    /\ Raise("ValueError: Invalid version")
    /\ UNCHANGED <<splitfixed, split_half, calls>>

NextSplit ==
    \/ SplitMaps
    \/ SplitSingleSubject
    \/ SplitIteration
    \/ SplitReturn
    \/ SplitInvalidVersion

SpecSplit == InitSplit /\ [][NextSplit]_vars

(***************************************************************************)
(* The claims.                                                             *)
(***************************************************************************)
StageNames == <<"LOAD", "PARSE", "FILTER", "SCORE", "NULL_SCORE", "THRESHOLD", "EXPORT">>

StageRank(st) == CHOOSE k \in 1..Len(StageNames) : StageNames[k] = st

Entered(st) == \E k \in 1..Len(stages) : stages[k] = st

ValidMetrics == {"crossentropy", "spearman", "auc", "rsa"}

\* C1: every null draw, in the serial loop of compute_human_ceiling.main and in
\* compute_inner_correlations, takes its comparison image from a category other
\* than the reference image's (by category index), hence never the reference
\* image itself and never another image of its category.
C1_NullDrawOtherCategory ==
    draw.i # 0 =>
        /\ category_indices[draw.rand_map] # category_indices[draw.i]
        /\ categories[draw.rand_map] # categories[draw.i]
        /\ draw.rand_map # draw.i

\* a draw was made for an image that has a same-category sibling to avoid
C1_Witness ==
    /\ draw.i # 0
    /\ \E j \in 1..Len(categories) : j # draw.i /\ categories[j] = categories[draw.i]
    /\ Cardinality({categories[j] : j \in 1..Len(categories)}) >= 2

\* C2: THRESHOLD takes each image's mean null score, the median of these means,
\* and keeps exactly the images whose mean is strictly below the median; for
\* the means 0.1, 0.5, 0.9, 0.3 the cutoff is 0.4 and images 1 and 4 are kept.
C2_MedianThreshold ==
    thresholded.done =>
        LET means == thresholded.mean_null_instance_correlations
            cutoff == thresholded.median_cutoff
            M == Len(means)
            finite == \A j \in 1..M : ~IsNaN(means[j])
            keptKeys == {thresholded.final_clickmaps_thresholded[e].k :
                            e \in 1..Len(thresholded.final_clickmaps_thresholded)}
        IN  /\ M = Len(final_clickmaps)
            /\ \A j \in 1..M :
                 LET v == instance_correlations[j].v
                 IN  (\A k \in 1..Len(v) : ~IsNaN(v[k])) =>
                        /\ ~IsNaN(means[j])
                        /\ means[j].n * SumSeq(v).d * Len(v) = SumSeq(v).n * means[j].d
            /\ finite =>
                 /\ ~IsNaN(cutoff)
                 /\ 2 * Cardinality({j \in 1..M : Lt(means[j], cutoff)}) <= M
                 /\ 2 * Cardinality({j \in 1..M : Lt(cutoff, means[j])}) <= M
            /\ \A j \in 1..M :
                 (final_clickmaps[j].k \in keptKeys) <=>
                     (~IsNaN(means[j]) /\ ~IsNaN(cutoff)
                        /\ means[j].n * cutoff.d < cutoff.n * means[j].d)
            /\ Len(thresholded.final_clickmaps_thresholded) = Cardinality(keptKeys)
            /\ means = <<Rat(1, 10), Rat(5, 10), Rat(9, 10), Rat(3, 10)>> =>
                 /\ cutoff = Rat(4, 10)
                 /\ keptKeys = {ThrKeys[1], ThrKeys[4]}

\* the means 0.1, 0.5, 0.9, 0.3 were thresholded and two images were kept
C2_Witness ==
    /\ thresholded.done
    /\ thresholded.mean_null_instance_correlations =
           <<Rat(1, 10), Rat(5, 10), Rat(9, 10), Rat(3, 10)>>
    /\ Len(thresholded.final_clickmaps_thresholded) = 2

\* C3: wherever the metric name is dispatched, the four names crossentropy,
\* spearman, auc and rsa are each scored with their own metric, and any other
\* name is rejected with an error instead of being scored.
C3_MetricDispatchExact ==
    /\ \A c \in 1..Len(calls) :
         /\ lower(metric) \in ValidMetrics
         /\ calls[c].fn = lower(metric)
    /\ error = "ValueError: Invalid metric" => lower(metric) \notin ValidMetrics

\* C4: parsing never aborts the run: every trial string is either parsed and
\* kept or dropped and counted, so that once parsing is over the kept trials
\* and the empty-map counter add up to the number of input rows.
C4_ParseNeverAborts ==
    /\ ~(pc = "RAISED" /\ stages[Len(stages)] = "PARSE")
    /\ (Entered("SCORE") \/ Entered("FILTER")) =>
         LET dict == IF script = "ceiling" THEN final_clickmaps ELSE clickmaps
         IN  Len(Flatten(Values(dict))) + n_empty_clickmap = Len(rows)

\* C5: in agreement scoring of an image with N subject maps, an all-zero map
\* is scored NaN and stays in the set: the image yields N per-subject scores.
C5_ZeroMapKeptAndNaN ==
    loo.done =>
        /\ Len(loo.correlations) = loo.n_trials
        /\ \A k \in 1..Len(loo.zero) :
             loo.zero[k] => k <= Len(loo.correlations) /\ IsNaN(loo.correlations[k])

np_nanmedian(s) == np_median(DropNaN(s))

\* C6: every aggregation ignores NaN entries: the per-image mean agreement,
\* the per-iteration null mean, the per-image mean null score and the median
\* cutoff are those of the finite entries, and the images below that median
\* are retained also when some null score is NaN.
C6_AggregationIgnoresNaN ==
    /\ \A k \in 1..Len(null_correlations) :
         IsNaN(null_correlations[k]) => pc = "RAISED" \/ Len(all_clickmaps) = 0
             \/ \E e \in 1..Len(instance_correlations) :
                    \E x \in 1..Len(instance_correlations[e].v) :
                        IsNaN(instance_correlations[e].v[x])
    /\ thresholded.done =>
         LET nanmeans == [e \in 1..Len(instance_correlations) |->
                             np_nanmean(instance_correlations[e].v)]
             cutoff == np_nanmedian(nanmeans)
         IN  /\ thresholded.mean_null_instance_correlations = nanmeans
             /\ thresholded.median_cutoff = cutoff
             /\ {thresholded.final_clickmaps_thresholded[e].k :
                    e \in 1..Len(thresholded.final_clickmaps_thresholded)}
                = {final_clickmaps[j].k : j \in {j \in 1..Len(nanmeans) :
                                                    Lt(nanmeans[j], cutoff)}}

\* C7: leave-one-out agreement of an image with a single subject map is NaN
\* and does not raise; with two or more non-degenerate maps it is finite.
C7_SingleSubjectIsNaN ==
    /\ loo.n_trials = 1 =>
         /\ loo.done
         /\ error = ""
         /\ \A k \in 1..Len(loo.correlations) : IsNaN(loo.correlations[k])
    /\ (loo.done /\ loo.n_trials >= 2 /\ \A k \in 1..Len(loo.zero) : ~loo.zero[k]) =>
         \A k \in 1..Len(loo.correlations) : ~IsNaN(loo.correlations[k])

\* C8: leave-one-out scoring gives N scores per image, averaged NaN-ignoring
\* into one agreement score per image: the list of agreement scores holds
\* exactly one entry per scored image, in image order.
C8_OneScorePerImage ==
    /\ pc = "SCORE" => Len(all_correlations) = idx - 1
    /\ (pc = "SCORE" /\ loo.done) =>
         all_correlations[Len(all_correlations)] = np_nanmean(loo.correlations)
    /\ Entered("NULL_SCORE") => Len(all_correlations) = Len(all_clickmaps)

\* C9: before every metric invocation both operands carry the normalization
\* the selected metric requires: sum = 1 for cross-entropy, min-max for
\* Spearman, AUC and RSA.
C9_NormalizationMatchesMetric ==
    \A c \in 1..Len(calls) :
        /\ lower(metric) = "crossentropy" =>
             calls[c].norm1 = "sum" /\ calls[c].norm2 = "sum"
        /\ lower(metric) \in {"spearman", "auc", "rsa"} =>
             calls[c].norm1 = "minmax" /\ calls[c].norm2 = "minmax"

Forward == \A k \in 1..(Len(stages) - 1) : StageRank(stages[k]) < StageRank(stages[k + 1])

ScoreFinished ==
    IF script = "ceiling" THEN Len(all_correlations) = Len(final_clickmaps)
    ELSE Len(all_correlations) = Len(Flatten(all_clickmaps))

C11_SplitPartition ==
    (split_half.version = "multiple_subjects" /\ split_half.n > 0) =>
        LET N == split_half.num_trials
            a == split_half.first_half_indices
            b == split_half.second_half_indices
            occ(i) == Cardinality({k \in 1..Len(a) : a[k] = i})
                        + Cardinality({k \in 1..Len(b) : b[k] = i})
        IN  /\ Len(a) = N \div 2
            /\ Len(b) = N - (N \div 2)
            /\ a \o b = split_half.indices
            /\ \A k \in 1..Len(a) : a[k] \in 0..(N - 1)
            /\ \A k \in 1..Len(b) : b[k] \in 0..(N - 1)
            /\ N >= 2 => Len(a) >= 1 /\ Len(b) >= 1
            /\ ~split_half.bootstrap => \A i \in 0..(N - 1) : occ(i) = 1

\* three or more maps were split without bootstrap, none of them removed
C11_Witness ==
    /\ split_half.version = "multiple_subjects"
    /\ ~split_half.bootstrap
    /\ split_half.n = NSplits
    /\ split_half.num_trials >= 3
    /\ split_half.num_trials = Len(split_half.image_trials)

\* C12: null scores accumulate over the iterations: in NULL_SCORE no image's
\* null-instance list is shorter than the number of finished iterations, and
\* after NULL_SCORE the dataset null array has NullIterations entries and
\* every image's null-instance list holds NullIterations scores.
C12_NullScoresAccumulate ==
    /\ (pc = "NULL_SCORE" /\ it > 1) =>
         /\ Len(null_correlations) = it - 1
         /\ \A e \in 1..Len(instance_correlations) :
              Len(instance_correlations[e].v) >= it - 1
    /\ (Entered("THRESHOLD") \/ Entered("EXPORT")) =>
         /\ Len(null_correlations) = NullIterations
         /\ Len(instance_correlations) = Len(all_clickmaps)
         /\ \A e \in 1..Len(instance_correlations) :
              Len(instance_correlations[e].v) = NullIterations

\* C13: in the parallel null step no step writes the stacked maps or the
\* category indices; a worker's step fills exactly the result slot of its own
\* image index and nothing of the aggregates; the aggregation happens only
\* when every worker has returned, and it is a function of the results by
\* image index alone, whatever the order the workers finished in.
C13_WorkersIsolated ==
    [][(script = "holdout" /\ pc = "NULL_SCORE") =>
        /\ all_clickmaps' = all_clickmaps
        /\ category_indices' = category_indices
        /\ IF pc' = pc /\ null_correlations' = null_correlations
           THEN /\ \E i \in 1..Len(results) :
                     /\ results[i].state = "pending"
                     /\ results'[i].state # "pending"
                     /\ results'[i].i = i
                     /\ \A j \in 1..Len(results) : j # i => results'[j] = results[j]
                /\ Len(results') = Len(results)
                /\ instance_correlations' = instance_correlations
                /\ inner_correlations' = inner_correlations
           ELSE /\ \A i \in 1..Len(results) : results[i].state # "pending"
                /\ null_correlations' # null_correlations =>
                     /\ \A i \in 1..Len(results) : results[i].state = "done"
                     /\ null_correlations' =
                            Append(null_correlations,
                                   np_nanmean([i \in 1..Len(results) |->
                                                  results[i].correlation]))
                     /\ Len(instance_correlations') = Len(all_clickmaps)
                     /\ \A i \in 1..Len(results) :
                          /\ instance_correlations'[i].k = i
                          /\ instance_correlations'[i].v = <<results[i].correlation>>]_vars

\* in the second iteration every worker has returned a score, and the worker
\* of the first image was the last to finish
C13_Witness ==
    /\ script = "holdout" /\ pc = "NULL_SCORE"
    /\ it = 2
    /\ Len(results) >= 2
    /\ \A i \in 1..Len(results) : results[i].state = "done"
    /\ draw.i = 1

\* C14: in compute_human_ceiling.py the j-th key of final_clickmaps, the j-th
\* agreement score, the j-th map stack and category, and key j of the
\* null-instance mapping denote the same image; after THRESHOLD the three
\* thresholded outputs have equal length, their e-th entries are those of the
\* e-th image whose own mean null score is below the cutoff, and no other
\* image is retained.
C14_ThresholdAligned ==
    (script = "ceiling" /\ thresholded.done) =>
        LET M == Len(final_clickmaps)
            means == thresholded.mean_null_instance_correlations
            cutoff == thresholded.median_cutoff
            kept == SelectSeq([j \in 1..M |-> j], LAMBDA j : Lt(means[j], cutoff))
            fct == thresholded.final_clickmaps_thresholded
            act == thresholded.all_correlations_thresholded
            nit == thresholded.null_instance_correlations_thresholded
        IN  /\ Len(all_correlations) = M
            /\ Len(all_clickmaps) = M
            /\ Len(categories) = M
            /\ Len(instance_correlations) = M
            /\ Len(means) = M
            /\ \A j \in 1..M :
                 /\ instance_correlations[j].k = j
                 /\ categories[j] = category_of(final_clickmaps[j].k)
                 /\ all_clickmaps[j] = remove_zero_maps(smoothed_maps(final_clickmaps[j].v))
                 /\ means[j] = np_mean(instance_correlations[j].v)
            /\ Len(fct) = Len(kept)
            /\ Len(act) = Len(kept)
            /\ Len(nit) = Len(kept)
            /\ \A e \in 1..Len(kept) :
                 /\ fct[e] = final_clickmaps[kept[e]]
                 /\ act[e] = all_correlations[kept[e]]
                 /\ nit[e] = instance_correlations[kept[e]].v

\* three images were scored and thresholded; the first one retained is not
\* the first image, and another image has another agreement score and other
\* null scores than it
C14_Witness ==
    /\ script = "ceiling" /\ thresholded.done
    /\ Len(final_clickmaps) = 3
    /\ Len(thresholded.final_clickmaps_thresholded) >= 1
    /\ thresholded.final_clickmaps_thresholded[1].k # final_clickmaps[1].k
    /\ all_correlations[1] # thresholded.all_correlations_thresholded[1]
    /\ \A j \in 1..3 :
         final_clickmaps[j].k # thresholded.final_clickmaps_thresholded[1].k =>
             instance_correlations[j].v #
                 thresholded.null_instance_correlations_thresholded[1]

====
